---- MODULE Spec2Model ----
(***************************************************************************)
(* A model of the ISA-Tab parser of isareport (src/isareport/parser.py).   *)
(*                                                                         *)
(* Text is modelled as sequences of one-character strings, so that the     *)
(* regular expressions and string operations of the parser are computed    *)
(* character by character.                                                 *)
(***************************************************************************)
EXTENDS Integers, Sequences, FiniteSets, TLC

VARIABLES
    \* _slug applied to one label
    label, slugOut, slugPc,
    \* _collapse_rows: the header row, the rows the reader has yielded, the
    \* nodes dictionary, the exception raised (if any), and whether it returned
    headers, rows, nodes, err, returned,
    \* parse: the argument, the names in the directory it may name, the
    \* reference after resolution, the glob results, the position and the
    \* exception raised
    argRef, listing, isatab_ref, fnames, dirPc, dirErr,
    \* StudyAssayParser.parse: the files of the directory, rec.studies as
    \* passed in and as it is now, final_studies, the loop position, the
    \* position in parse and the exception raised
    disk, studies0, recStudies, final_studies, study_index, studyPc, studyErr,
    \* InvestigationParser.parse: the lines the reader has given, whether it
    \* is exhausted, out of _parse_keyvals, section and had_info and the record
    \* of _parse_region, whether the loop over the studies has begun, rec, the
    \* read parse is waiting at and the exception raised
    in_handle, exhausted, out, section, had_info, region, in_studies, rec,
    invPc, invErr

slugVars == <<label, slugOut, slugPc>>
collapseVars == <<headers, rows, nodes, err, returned>>
dirVars == <<argRef, listing, isatab_ref, fnames, dirPc, dirErr>>
studyVars ==
    <<disk, studies0, recStudies, final_studies, study_index, studyPc, studyErr>>
invVars ==
    <<in_handle, exhausted, out, section, had_info, region, in_studies, rec,
      invPc, invErr>>
vars == <<slugVars, collapseVars, dirVars, studyVars, invVars>>

(***************************************************************************)
(* Characters.                                                             *)
(***************************************************************************)

\* The printable ASCII characters in code-point order, from 32 to 126. The
\* grave accent (96) cannot be written in a string here and is spelled out.
Chars ==
    <<" ", "!", "\"", "#", "$", "%", "&", "'", "(", ")", "*", "+", ",", "-", ".", "/",
      "0", "1", "2", "3", "4", "5", "6", "7", "8", "9", ":", ";", "<", "=", ">", "?",
      "@", "A", "B", "C", "D", "E", "F", "G", "H", "I", "J", "K", "L", "M", "N", "O",
      "P", "Q", "R", "S", "T", "U", "V", "W", "X", "Y", "Z", "[", "\\", "]", "^", "_",
      "GRAVE", "a", "b", "c", "d", "e", "f", "g", "h", "i", "j", "k", "l", "m", "n", "o",
      "p", "q", "r", "s", "t", "u", "v", "w", "x", "y", "z", "{", "|", "}", "~">>

\* The code point of every character.
OrdTable ==
    [c \in {Chars[i] : i \in 1..Len(Chars)} |->
        31 + (CHOOSE i \in 1..Len(Chars) : Chars[i] = c)]

\* ord(c)
Ord(c) == OrdTable[c]

\* chr(n)
Chr(n) == Chars[n - 31]

\* str.lower() on one character: A-Z map to a-z, everything else is kept.
LowerChar(c) == IF Ord(c) \in Ord("A")..Ord("Z") THEN Chr(Ord(c) + 32) ELSE c

\* str.lower()
Lower(s) == [i \in 1..Len(s) |-> LowerChar(s[i])]

\* str.upper() on one character.
UpperChar(c) == IF Ord(c) \in Ord("a")..Ord("z") THEN Chr(Ord(c) - 32) ELSE c

\* str.upper()
Upper(s) == [i \in 1..Len(s) |-> UpperChar(s[i])]

\* s.startswith(p)
StartsWith(s, p) == Len(s) >= Len(p) /\ SubSeq(s, 1, Len(p)) = p

\* s.endswith(p)
EndsWith(s, p) == Len(s) >= Len(p) /\ SubSeq(s, Len(s) - Len(p) + 1, Len(s)) = p

(***************************************************************************)
(* _slug: re.sub(r'[^0-9a-z.-_]', '-', name.lower()).                      *)
(* Inside the brackets ".-_" is a range, from "." to "_": the characters   *)
(* the class keeps are 0-9, a-z and every code point from "." to "_".      *)
(***************************************************************************)

\* Whether the negated class [^0-9a-z.-_] leaves character c alone.
SlugKeeps(c) ==
    \/ Ord(c) \in Ord("0")..Ord("9")
    \/ Ord(c) \in Ord("a")..Ord("z")
    \/ Ord(c) \in Ord(".")..Ord("_")

\* StudyAssayParser._slug (and isareport.slug, the same expression).
Slug(name) ==
    LET low == Lower(name)
    IN  [i \in 1..Len(low) |-> IF SlugKeeps(low[i]) THEN low[i] ELSE "-"]

(***************************************************************************)
(* The header grammar of StudyAssayParser.                                 *)
(***************************************************************************)

\* Python's None, as a dictionary key or a reference: no text equals it.
None == <<"None">>

\* The alternatives of _RE_ATTR_QUALS.
QualKeywords ==
    { <<"U", "n", "i", "t">>,
      <<"T", "e", "r", "m", " ", "A", "c", "c", "e", "s", "s", "i", "o", "n", " ",
        "N", "u", "m", "b", "e", "r">>,
      <<"T", "e", "r", "m", " ", "S", "o", "u", "r", "c", "e", " ", "R", "E", "F">> }

\* _RE_ATTR_QUALS.match(header): the header starts with a qualifier keyword.
IsQualifier(h) == \E k \in QualKeywords : StartsWith(h, k)

\* The alternatives of the second group of _RE_NODES.
NodeKinds == { <<"N", "a", "m", "e">>, <<"F", "i", "l", "e">>, <<"R", "E", "F">> }

\* _RE_NODES = ^(.+)\s(Name|File|REF)$ : a non-empty prefix, one whitespace
\* character, and a kind that ends the header.
NodeKindOf(h) ==
    IF \E k \in NodeKinds :
           /\ EndsWith(h, k)
           /\ Len(h) >= Len(k) + 2
           /\ h[Len(h) - Len(k)] = " "
    THEN CHOOSE k \in NodeKinds :
           /\ EndsWith(h, k)
           /\ Len(h) >= Len(k) + 2
           /\ h[Len(h) - Len(k)] = " "
    ELSE None

\* _RE_NODES.match(header)
IsNode(h) == NodeKindOf(h) # None

\* m.group(1) of _RE_NODES: the text before the whitespace and the kind.
NodeSubtypeOf(h) == SubSeq(h, 1, Len(h) - Len(NodeKindOf(h)) - 1)

\* The length of the longest prefix of s, from position i on, that holds no
\* character of the set stop.
RECURSIVE RunLen(_, _, _)
RunLen(s, i, stop) ==
    IF i > Len(s) \/ s[i] \in stop THEN 0 ELSE 1 + RunLen(s, i + 1, stop)

\* _RE_ATTRS = ([^\[]+)\[?([^\]]*)\]? matches when the header starts with a
\* character other than "[".
AttrMatches(h) == RunLen(h, 1, {"["}) >= 1

\* m.group(1) of _RE_ATTRS: the attribute class.
AttrClassOf(h) == SubSeq(h, 1, RunLen(h, 1, {"["}))

\* m.group(2) of _RE_ATTRS: the text between the brackets, empty without them.
AttrQualOf(h) ==
    LET n == RunLen(h, 1, {"["})
        from == IF n < Len(h) THEN n + 2 ELSE n + 1
    IN  SubSeq(h, from, from + RunLen(h, from, {"]"}) - 1)

(***************************************************************************)
(* Dictionaries, ordered sets and nodes.                                   *)
(***************************************************************************)

\* An empty dict.
EmptyDict == [k \in {} |-> k]

\* d[k] = v on a dict.
Put(d, k, v) == [x \in (DOMAIN d) \cup {k} |-> IF x = k THEN v ELSE d[x]]

\* OrderedSet.add: the element is appended unless it is a member.
OsetAdd(s, x) == IF \E i \in 1..Len(s) : s[i] = x THEN s ELSE Append(s, x)

\* The members of an OrderedSet.
Members(s) == {s[i] : i \in 1..Len(s)}

\* IsaNode.types, keyed by the slug of the kind.
NodeTypes(kind) ==
    CASE kind = <<"n", "a", "m", "e">> -> "entity"
      [] kind = <<"f", "i", "l", "e">> -> "file"
      [] kind = <<"r", "e", "f">> -> "reference"

\* IsaNode.__init__
IsaNode(nid, ntype, nsubtype, lbl) ==
    [nid |-> nid, ntype |-> NodeTypes(Lower(ntype)), nsubtype |-> nsubtype,
     label |-> lbl, parents |-> <<>>, children |-> <<>>, metadata |-> EmptyDict]

\* nodes.has_key(nid), on the OrderedDict kept as the sequence of its values.
HasKey(ns, nid) == \E i \in 1..Len(ns) : ns[i].nid = nid

\* The position of nodes[nid] in the OrderedDict.
IndexOf(ns, nid) == CHOOSE i \in 1..Len(ns) : ns[i].nid = nid

\* The keys of the OrderedDict, in order.
Keys(ns) == [i \in 1..Len(ns) |-> ns[i].nid]

\* node.metadata[cls], a defaultdict: a missing class reads as an empty dict.
MetaGet(node, cls) ==
    IF cls \in DOMAIN node.metadata THEN node.metadata[cls] ELSE EmptyDict

(***************************************************************************)
(* _collapse_rows: the body of the loop over the columns of one row.       *)
(* The cursor is [nodes, last_attr, last_node, err]; last_node is the nid  *)
(* of the node object it refers to, or None.                               *)
(***************************************************************************)

\* "-ref-"
RefInfix == <<"-", "r", "e", "f", "-">>

\* The literal key 'value'.
ValueKey == <<"v", "a", "l", "u", "e">>

Fail(st, e) == [st EXCEPT !.err = e]

\* Lines 196-201: a qualifier column.
QualifierCell(st, h, row, i) ==
    IF i > Len(row) THEN Fail(st, "IndexError")
    ELSE IF Len(row[i]) = 0 THEN st
    ELSE IF st.last_node = None THEN Fail(st, "AttributeError")
    ELSE LET k == IndexOf(st.nodes, st.last_node)
             node == st.nodes[k]
             inner == Put(MetaGet(node, st.last_attr), h, row[i])
         IN  [st EXCEPT !.nodes[k].metadata = Put(node.metadata, st.last_attr, inner)]

\* RefNid without the namespace of the preceding node.
RefNidBare(last_nid, slugged) == slugged

\* The nid a REF cell gets: a node must precede it in the row.
RefNid(last_nid, slugged) == last_nid \o RefInfix \o slugged

\* AddEdge recording only the children side of the edge.
AddEdgeOneSided(ns, last_nid, nid) ==
    IF last_nid # None /\ last_nid # nid
    THEN [ns EXCEPT ![IndexOf(ns, last_nid)].children = OsetAdd(@, nid)]
    ELSE ns

\* AddEdge without the test that the two ids differ.
AddEdgeWithSelf(ns, last_nid, nid) ==
    IF last_nid # None
    THEN LET p == IndexOf(ns, last_nid)
             c == IndexOf(ns, nid)
             withChild == [ns EXCEPT ![p].children = OsetAdd(@, nid)]
         IN  [withChild EXCEPT ![c].parents = OsetAdd(@, last_nid)]
    ELSE ns

\* Lines 224-227: the edge from the previous node of the row to this one.
AddEdge(ns, last_nid, nid) ==
    IF last_nid # None /\ last_nid # nid
    THEN LET p == IndexOf(ns, last_nid)
             c == IndexOf(ns, nid)
             withChild == [ns EXCEPT ![p].children = OsetAdd(@, nid)]
         IN  [withChild EXCEPT ![c].parents = OsetAdd(@, last_nid)]
    ELSE ns

\* Lines 213-223: the node of this nid, created on its first sight.
LookupOrCreate(ns, nid, h, lbl) ==
    IF HasKey(ns, nid) THEN ns
    ELSE Append(ns, IsaNode(nid, Slug(NodeKindOf(h)), Slug(NodeSubtypeOf(h)), lbl))

\* Lines 207-228: a node column.
NodeCell(st, h, row, i) ==
    IF i > Len(row) THEN Fail(st, "IndexError")
    ELSE IF NodeKindOf(h) = <<"R", "E", "F">> /\ st.last_node = None
    THEN Fail(st, "AttributeError")
    ELSE LET nid == IF NodeKindOf(h) = <<"R", "E", "F">>
                    THEN RefNid(st.last_node, Slug(row[i]))
                    ELSE Slug(row[i])
             ns == LookupOrCreate(st.nodes, nid, h, row[i])
         IN  [st EXCEPT !.nodes = AddEdge(ns, st.last_node, nid),
                        !.last_node = nid]

\* Line 234: an attribute without a bracket replaces the class's dict.
SetValue(node, cls, v) == Put(node.metadata, cls, Put(EmptyDict, ValueKey, v))

\* Lines 236-239: a bracketed attribute is merged into the class's dict.
SetQualified(node, cls, q, v) ==
    IF cls \in DOMAIN node.metadata
    THEN Put(node.metadata, cls, Put(node.metadata[cls], q, v))
    ELSE Put(node.metadata, cls, Put(EmptyDict, q, v))

\* Lines 230-239: an attribute column.
AttributeCell(st, h, row, i) ==
    IF ~AttrMatches(h) THEN Fail(st, "AttributeError")
    ELSE LET cls == AttrClassOf(h)
             q == AttrQualOf(h)
             st1 == [st EXCEPT !.last_attr = cls]
         IN  IF q = <<>>
             THEN IF i > Len(row) THEN Fail(st1, "IndexError")
                  ELSE IF st.last_node = None THEN Fail(st1, "AttributeError")
                  ELSE LET k == IndexOf(st.nodes, st.last_node)
                       IN  [st1 EXCEPT !.nodes[k].metadata =
                                           SetValue(st.nodes[k], cls, row[i])]
             ELSE IF st.last_node = None THEN Fail(st1, "AttributeError")
                  ELSE IF i > Len(row) THEN Fail(st1, "IndexError")
                  ELSE LET k == IndexOf(st.nodes, st.last_node)
                       IN  [st1 EXCEPT !.nodes[k].metadata =
                                           SetQualified(st.nodes[k], cls, q, row[i])]

\* Lines 195-239: one column of one row, by the precedence of the patterns.
Cell(st, h, row, i) ==
    IF IsQualifier(h) THEN QualifierCell(st, h, row, i)
    ELSE IF IsNode(h) THEN NodeCell(st, h, row, i)
    ELSE AttributeCell(st, h, row, i)

\* Lines 194-239: the columns from i on; an exception ends the row.
RECURSIVE Columns(_, _, _, _)
Columns(st, hs, row, i) ==
    IF i > Len(hs) \/ st.err # "none" THEN st
    ELSE Columns(Cell(st, hs[i], row, i), hs, row, i + 1)

\* Lines 191-239: one row, with a fresh cursor.
Row(ns, hs, row) ==
    Columns([nodes |-> ns, last_attr |-> None, last_node |-> None, err |-> "none"],
            hs, row, 1)

(***************************************************************************)
(* _collapse_rows on bounded files: a header row and the rows the csv      *)
(* reader yields after it.                                                 *)
(***************************************************************************)

\* The most data rows of one file.
MaxRows == 3

SourceName == <<"S", "o", "u", "r", "c", "e", " ", "N", "a", "m", "e">>
SampleName == <<"S", "a", "m", "p", "l", "e", " ", "N", "a", "m", "e">>
ProtocolREF == <<"P", "r", "o", "t", "o", "c", "o", "l", " ", "R", "E", "F">>
RawDataFile == <<"R", "a", "w", " ", "D", "a", "t", "a", " ", "F", "i", "l", "e">>
Comment == <<"C", "o", "m", "m", "e", "n", "t">>
CommentA == <<"C", "o", "m", "m", "e", "n", "t", "[", "a", "]">>
Unit == <<"U", "n", "i", "t">>

\* The header rows of the files.
HeaderLists ==
    { <<SourceName, SampleName>>,
      <<SourceName, ProtocolREF>>,
      <<SourceName, SampleName, RawDataFile>>,
      <<ProtocolREF, SampleName>>,
      <<RawDataFile>>,
      <<RawDataFile, Comment, Unit>>,
      <<RawDataFile, CommentA, Unit>>,
      <<Comment, SampleName>>,
      <<Unit, SampleName>> }

Src1 == <<"s", "r", "c", "1">>
Src2 == <<"s", "r", "c", "2">>
Samp1 == <<"s", "a", "m", "p", "1">>
Samp2 == <<"s", "a", "m", "p", "2">>
Samp3 == <<"s", "a", "m", "p", "3">>

\* The cells of a Source Name column.
SourceLabels == {Src1, Src2}

\* The cells of any other Name column: a sample may carry a source's name.
SampleLabels == {Samp1, Samp2, Samp3, Src1}

\* The cells of a File column: two labels of one slug.
FileLabels == { <<"a", ".", "t", "x", "t">>, <<"A", ".", "t", "x", "t">> }

\* The cells of a REF column: two labels of one slug, and the empty cell.
RefLabels == { <<"P", "1">>, <<"p", "1">>, <<>> }

\* The cells of an attribute column.
AttrValues == { <<"5">>, <<"6">> }

\* The cells of a qualifier column.
QualValues == { <<>>, <<"k", "g">> }

CellsFor(h) ==
    IF IsQualifier(h) THEN QualValues
    ELSE IF NodeKindOf(h) = <<"R", "E", "F">> THEN RefLabels
    ELSE IF NodeKindOf(h) = <<"F", "i", "l", "e">> THEN FileLabels
    ELSE IF h = SourceName THEN SourceLabels
    ELSE IF IsNode(h) THEN SampleLabels
    ELSE AttrValues

\* The rows of n cells under the first n headers.
RECURSIVE FullRows(_, _)
FullRows(hs, n) ==
    IF n = 0 THEN { <<>> }
    ELSE {Append(r, c) : r \in FullRows(hs, n - 1), c \in CellsFor(hs[n])}

\* The rows the reader can yield under a header row: every full row, and the
\* empty row of a blank line.
RowsFor(hs) == FullRows(hs, Len(hs)) \cup { <<>> }

SlugIdle == label = <<>> /\ slugOut = <<>> /\ slugPc = "idle"

DirIdle ==
    /\ argRef = "none" /\ listing = {} /\ isatab_ref = <<>> /\ fnames = <<>>
    /\ dirPc = "idle" /\ dirErr = "none"

\* _collapse_rows is entered: nodes = OrderedDict().
CollapseInit ==
    /\ headers \in HeaderLists
    /\ rows = <<>>
    /\ nodes = <<>>
    /\ err = "none"
    /\ returned = FALSE

StudyIdle ==
    /\ disk = <<>> /\ studies0 = <<>> /\ recStudies = <<>> /\ final_studies = <<>>
    /\ study_index = 0 /\ studyPc = "idle" /\ studyErr = "none"

InvIdle ==
    /\ in_handle = <<>> /\ exhausted = FALSE /\ out = <<>> /\ section = <<>>
    /\ had_info = FALSE /\ region = <<>> /\ in_studies = FALSE /\ rec = <<>>
    /\ invPc = "idle" /\ invErr = "none"

Init == CollapseInit /\ SlugIdle /\ DirIdle /\ StudyIdle /\ InvIdle

\* One iteration of "for row in reader".
CollapseRow ==
    /\ ~returned /\ err = "none"
    /\ Len(rows) < MaxRows
    /\ \E row \in RowsFor(headers) :
          LET st == Row(nodes, headers, row)
          IN  /\ rows' = Append(rows, row)
              /\ nodes' = st.nodes
              /\ err' = st.err
    /\ UNCHANGED <<headers, returned>>
    /\ UNCHANGED <<slugVars, dirVars, studyVars, invVars>>

\* The reader is exhausted: return nodes.
CollapseReturn ==
    /\ ~returned /\ err = "none"
    /\ returned' = TRUE
    /\ UNCHANGED <<headers, rows, nodes, err>>
    /\ UNCHANGED <<slugVars, dirVars, studyVars, invVars>>

Next == CollapseRow \/ CollapseReturn

Spec == Init /\ [][Next]_vars

(***************************************************************************)
(* Properties of _collapse_rows.  What the rows should produce is computed *)
(* here from the rows read, column by column, and compared with nodes.     *)
(***************************************************************************)

\* A column that opens a node.
IsNodeCol(h) == ~IsQualifier(h) /\ IsNode(h)

\* The last node column before column i, or 0.
RECURSIVE PrevNodeCol(_, _)
PrevNodeCol(hs, i) ==
    IF i <= 1 THEN 0
    ELSE IF IsNodeCol(hs[i - 1]) THEN i - 1 ELSE PrevNodeCol(hs, i - 1)

\* The id the node cell of column i should get.
RECURSIVE ExpectedNid(_, _, _)
ExpectedNid(hs, row, i) ==
    IF EndsWith(hs[i], <<" ", "R", "E", "F">>)
    THEN ExpectedNid(hs, row, PrevNodeCol(hs, i)) \o <<"-", "r", "e", "f", "-">> \o Slug(row[i])
    ELSE Slug(row[i])

\* The rows that were collapsed without an exception.
GoodRows == IF err = "none" THEN rows ELSE SubSeq(rows, 1, Len(rows) - 1)

\* The ids of the node cells, row by row and left to right.
RECURSIVE Encountered(_, _)
Encountered(hs, rs) ==
    IF rs = <<>> THEN <<>>
    ELSE Encountered(hs, SubSeq(rs, 1, Len(rs) - 1))
             \o [i \in 1..Len(hs) |-> ExpectedNid(hs, rs[Len(rs)], i)]

\* A sequence without the later occurrences of its elements.
RECURSIVE FirstSeen(_)
FirstSeen(s) ==
    IF s = <<>> THEN <<>>
    ELSE LET front == FirstSeen(SubSeq(s, 1, Len(s) - 1))
             x == s[Len(s)]
         IN  IF x \in Members(front) THEN front ELSE Append(front, x)

\* The ids that follow id p in the next node column of some row, other than p.
ExpectedChildren(hs, rs, p) ==
    {ExpectedNid(hs, rs[r], i + 1) : <<r, i>> \in
        {x \in (1..Len(rs)) \X (1..(Len(hs) - 1)) :
            /\ ExpectedNid(hs, rs[x[1]], x[2]) = p
            /\ ExpectedNid(hs, rs[x[1]], x[2] + 1) # p}}

ScenarioRows == << <<Src1, Samp1>>, <<Src1, Samp2>>, <<Src2, Samp3>> >>

\* C1. Edge symmetry: after any sequence of rows, for all nodes P and C of the
\* mapping, C.nid is in P.children if and only if P.nid is in C.parents, and
\* every id in a children or parents set is a key of the mapping.
C1_EdgeSymmetry ==
    err = "none" =>
        \A p \in 1..Len(nodes) :
            /\ \A c \in 1..Len(nodes) :
                   nodes[c].nid \in Members(nodes[p].children)
                       <=> nodes[p].nid \in Members(nodes[c].parents)
            /\ \A id \in Members(nodes[p].children) \cup Members(nodes[p].parents) :
                   HasKey(nodes, id)

\* C1: a mapping is returned in which some node has two children and some node
\* a parent.
C1_Witness ==
    /\ returned
    /\ \E p \in 1..Len(nodes) : Cardinality(Members(nodes[p].children)) = 2
    /\ \E c \in 1..Len(nodes) : nodes[c].parents # <<>>

\* C5. Under headers that are all node columns, the returned mapping has one
\* node per distinct computed id, its keys are in first-encountered order (row
\* by row, left to right), and P.children is exactly the set of ids found in
\* the next node column of a row where P is in the previous one and the two
\* ids differ; the rows (src1,samp1), (src1,samp2), (src2,samp3) give the 5
\* nodes src1, samp1, samp2, src2, samp3 with src1.children = {samp1, samp2}
\* and src2.children = {samp3}.
C5_ProvenanceGraph ==
    (returned /\ \A i \in 1..Len(headers) : IsNodeCol(headers[i])) =>
        /\ Keys(nodes) = FirstSeen(Encountered(headers, rows))
        /\ \A p \in 1..Len(nodes) :
               Members(nodes[p].children) = ExpectedChildren(headers, rows, nodes[p].nid)
        /\ (headers = <<SourceName, SampleName>> /\ rows = ScenarioRows) =>
               /\ Keys(nodes) = <<Src1, Samp1, Samp2, Src2, Samp3>>
               /\ Members(nodes[1].children) = {Samp1, Samp2}
               /\ Members(nodes[4].children) = {Samp3}

\* C5: the scenario's three rows were collapsed and the mapping returned.
C5_Witness ==
    /\ returned
    /\ headers = <<SourceName, SampleName>>
    /\ rows = ScenarioRows
    /\ Len(nodes) = 5

\* The pairs of collapsed rows and REF columns in which one label follows two
\* different predecessor ids.
SharedRefLabels ==
    {x \in (1..Len(GoodRows)) \X (1..Len(GoodRows)) \X (1..Len(headers)) :
        /\ EndsWith(headers[x[3]], <<" ", "R", "E", "F">>)
        /\ ~IsQualifier(headers[x[3]])
        /\ PrevNodeCol(headers, x[3]) > 0
        /\ GoodRows[x[1]][x[3]] = GoodRows[x[2]][x[3]]
        /\ ExpectedNid(headers, GoodRows[x[1]], PrevNodeCol(headers, x[3]))
               # ExpectedNid(headers, GoodRows[x[2]], PrevNodeCol(headers, x[3]))}

\* C6. REF namespacing: a REF cell with the same label after two predecessor
\* nodes with different ids gives two distinct node ids, each
\* <predecessor id> + "-ref-" + slug(label), each a node of the mapping that
\* is the child of its own predecessor.
C6_RefNamespacing ==
    \A x \in SharedRefLabels :
        LET lbl == GoodRows[x[1]][x[3]]
            pred1 == ExpectedNid(headers, GoodRows[x[1]], PrevNodeCol(headers, x[3]))
            pred2 == ExpectedNid(headers, GoodRows[x[2]], PrevNodeCol(headers, x[3]))
            nid1 == pred1 \o <<"-", "r", "e", "f", "-">> \o Slug(lbl)
            nid2 == pred2 \o <<"-", "r", "e", "f", "-">> \o Slug(lbl)
        IN  /\ nid1 # nid2
            /\ HasKey(nodes, nid1) /\ HasKey(nodes, nid2)
            /\ nid1 \in Members(nodes[IndexOf(nodes, pred1)].children)
            /\ nid2 \in Members(nodes[IndexOf(nodes, pred2)].children)
            /\ nid1 \notin Members(nodes[IndexOf(nodes, pred2)].children)

\* C6: a mapping is returned after one non-empty REF label followed two
\* different predecessors.
C6_Witness ==
    /\ returned
    /\ \E x \in SharedRefLabels : GoodRows[x[1]][x[3]] # <<>>

\* A column that is neither a qualifier nor a node: an attribute.
IsAttrCol(h) == ~IsQualifier(h) /\ ~IsNode(h)

\* The class of the last attribute column before column i, or None.
RECURSIVE PrevAttrClass(_, _)
PrevAttrClass(hs, i) ==
    IF i <= 1 THEN None
    ELSE IF IsAttrCol(hs[i - 1]) THEN AttrClassOf(hs[i - 1]) ELSE PrevAttrClass(hs, i - 1)

\* What a row writes into metadata: <<nid, attribute class, key, value>> for
\* every attribute cell and every non-empty qualifier cell that follows a node.
Writes(hs, row) ==
    {<<ExpectedNid(hs, row, PrevNodeCol(hs, i)),
       IF IsQualifier(hs[i]) THEN PrevAttrClass(hs, i) ELSE AttrClassOf(hs[i]),
       IF IsQualifier(hs[i]) THEN hs[i]
       ELSE IF AttrQualOf(hs[i]) = <<>> THEN <<"v", "a", "l", "u", "e">>
       ELSE AttrQualOf(hs[i]),
       row[i]>> : i \in
        {j \in 1..Len(hs) :
            /\ ~IsNodeCol(hs[j])
            /\ PrevNodeCol(hs, j) > 0
            /\ ~EndsWith(hs[PrevNodeCol(hs, j)], <<" ", "R", "E", "F">>)
            /\ IsQualifier(hs[j]) => row[j] # <<>>}}

\* The write w is still in the metadata of its node.
Present(w) ==
    /\ HasKey(nodes, w[1])
    /\ w[2] \in DOMAIN nodes[IndexOf(nodes, w[1])].metadata
    /\ w[3] \in DOMAIN nodes[IndexOf(nodes, w[1])].metadata[w[2]]
    /\ nodes[IndexOf(nodes, w[1])].metadata[w[2]][w[3]] = w[4]

\* C2. Node identity and metadata union: rows that produce the same non-REF
\* node id resolve to one node of the mapping, and every attribute value and
\* non-empty qualifier value a row wrote is still in that node's metadata,
\* unless another row wrote a different value under the same class and key.
C2_MetadataUnion ==
    err = "none" =>
        \A a \in 1..Len(rows) : \A w \in Writes(headers, rows[a]) :
            /\ Cardinality({k \in 1..Len(nodes) : nodes[k].nid = w[1]}) = 1
            /\ \/ Present(w)
               \/ \E b \in (1..Len(rows)) \ {a} : \E w2 \in Writes(headers, rows[b]) :
                      /\ w2[1] = w[1] /\ w2[2] = w[2] /\ w2[3] = w[3]
                      /\ w2[4] # w[4]

\* The row reaches an attribute cell, or a non-empty qualifier cell, before
\* any node column.
AttrBeforeNode(hs, row) ==
    \E i \in 1..Len(hs) :
        /\ i <= Len(row)
        /\ PrevNodeCol(hs, i) = 0
        /\ ~IsNodeCol(hs[i])
        /\ IsQualifier(hs[i]) => row[i] # <<>>

\* C9. A row that reaches an attribute column, or a qualifier column with a
\* non-empty cell, before any node column makes _collapse_rows fail with an
\* explicit parse error and return no mapping; an empty qualifier cell in that
\* position is skipped without an error.
C9_ExplicitParseError ==
    rows # <<>> =>
        /\ AttrBeforeNode(headers, rows[Len(rows)]) =>
               err = "ParseError" /\ ~returned
        /\ (headers = <<Unit, SampleName>> /\ Len(rows[Len(rows)]) = 2
                /\ rows[Len(rows)][1] = <<>>) => err = "none"

(***************************************************************************)
(* _slug on bounded labels.                                                *)
(***************************************************************************)

\* The longest label _slug is applied to.
MaxLabelLen == 2

\* The characters the labels are drawn from.
SlugAlphabet == {"A", "z", "7", ".", "-", "_", "/", ":", "@", "[", "]", " ", "~"}

SlugLabels == UNION {[1..n -> SlugAlphabet] : n \in 0..MaxLabelLen}

CollapseIdle ==
    headers = <<>> /\ rows = <<>> /\ nodes = <<>> /\ err = "none" /\ returned = FALSE

SlugInit ==
    /\ label \in SlugLabels
    /\ slugOut = <<>>
    /\ slugPc = "call"
    /\ CollapseIdle /\ DirIdle /\ StudyIdle /\ InvIdle

\* One call of _slug(label).
SlugCall ==
    /\ slugPc = "call"
    /\ slugOut' = Slug(label)
    /\ slugPc' = "returned"
    /\ UNCHANGED label
    /\ UNCHANGED <<collapseVars, dirVars, studyVars, invVars>>

SlugNext == SlugCall

SpecSlug == SlugInit /\ [][SlugNext]_vars

\* The characters the claimed class keeps: lowercase letters, digits, the dot,
\* the dash and the underscore.
ClaimedKeeps(c) ==
    \/ Ord(c) \in Ord("0")..Ord("9")
    \/ Ord(c) \in Ord("a")..Ord("z")
    \/ c \in {".", "-", "_"}

\* C7. Slug normalisation: _slug(label) is the lowercased label in which every
\* character other than a lowercase letter, a digit, a dot, a dash or an
\* underscore is replaced by a dash and those characters are kept; "/", ":",
\* "@", "[" and "]" are replaced.
C7_SlugNormalisation ==
    slugPc = "returned" =>
        /\ Len(slugOut) = Len(label)
        /\ \A i \in 1..Len(label) :
               slugOut[i] = IF ClaimedKeeps(LowerChar(label[i]))
                            THEN LowerChar(label[i]) ELSE "-"

(***************************************************************************)
(* parse: the resolution of the investigation file (lines 48-53).          *)
(***************************************************************************)

\* The file names a directory may hold.
DirNames ==
    { <<"i", "_", "a", ".", "t", "x", "t">>,
      <<"a", ".", "i", "d", "f", ".", "t", "x", "t">>,
      <<"i", "_", "a", ".", "i", "d", "f", ".", "t", "x", "t">>,
      <<".", "i", "d", "f", ".", "t", "x", "t">>,
      <<"s", "_", "a", ".", "t", "x", "t">>,
      <<"I", "_", "b", ".", "t", "x", "t">> }

\* fnmatch of a name against "i_*.txt".
MatchesI(n) ==
    /\ Len(n) >= 6
    /\ StartsWith(n, <<"i", "_">>)
    /\ EndsWith(n, <<".", "t", "x", "t">>)

\* fnmatch of a name against "*.idf.txt"; glob leaves out the names that start
\* with a dot when the pattern does not.
MatchesIdf(n) ==
    /\ EndsWith(n, <<".", "i", "d", "f", ".", "t", "x", "t">>)
    /\ n[1] # "."

\* The orders in which a directory scan may list the names of a set.
Orderings(S) ==
    {o \in [1..Cardinality(S) -> S] : \A i, j \in 1..Cardinality(S) : i # j => o[i] # o[j]}

\* glob.glob(pattern), in any order of the directory scan.
GlobI(names) == Orderings({n \in names : MatchesI(n)})
GlobIdf(names) == Orderings({n \in names : MatchesIdf(n)})

\* parse is called with a directory, with an existing file or with a path that
\* does not exist.
DirInit ==
    /\ argRef \in {"dir", "file", "missing"}
    /\ listing \in IF argRef = "dir" THEN SUBSET DirNames ELSE {{}}
    /\ isatab_ref = <<>>
    /\ fnames = <<>>
    /\ dirPc = "isdir"
    /\ dirErr = "none"
    /\ SlugIdle /\ CollapseIdle /\ StudyIdle /\ InvIdle

\* Lines 48-52: a directory is searched for the investigation file.
DirResolve ==
    /\ dirPc = "isdir"
    /\ IF argRef = "dir"
       THEN \E a \in GlobI(listing), b \in GlobIdf(listing) :
               /\ fnames' = a \o b
               /\ IF Len(a \o b) = 1
                  THEN /\ isatab_ref' = (a \o b)[1]
                       /\ dirPc' = "exists"
                       /\ dirErr' = "none"
                  ELSE /\ isatab_ref' = isatab_ref
                       /\ dirPc' = "raised"
                       /\ dirErr' = "AssertionError"
       ELSE /\ dirPc' = "exists"
            /\ UNCHANGED <<isatab_ref, fnames, dirErr>>
    /\ UNCHANGED <<argRef, listing>>
    /\ UNCHANGED <<slugVars, collapseVars, studyVars, invVars>>

\* Line 53: the reference must exist; then the investigation file is opened.
DirAssertExists ==
    /\ dirPc = "exists"
    /\ IF argRef = "missing"
       THEN dirPc' = "raised" /\ dirErr' = "AssertionError"
       ELSE dirPc' = "open" /\ dirErr' = "none"
    /\ UNCHANGED <<argRef, listing, isatab_ref, fnames>>
    /\ UNCHANGED <<slugVars, collapseVars, studyVars, invVars>>

DirNext == DirResolve \/ DirAssertExists

SpecDir == DirInit /\ [][DirNext]_vars

\* C10. Directory resolution: given a directory, parse goes on to parse the
\* investigation file if and only if exactly one file of the directory has a
\* name matching i_*.txt or *.idf.txt, and fails otherwise; one file whose
\* name matches both patterns counts as exactly one match.
C10_ExactlyOneCandidate ==
    (argRef = "dir" /\ dirPc # "isdir") =>
        (dirErr = "none"
            <=> Cardinality({n \in listing :
                    \/ StartsWith(n, <<"i", "_">>) /\ EndsWith(n, <<".", "t", "x", "t">>)
                           /\ Len(n) >= 6
                    \/ EndsWith(n, <<".", "i", "d", "f", ".", "t", "x", "t">>)
                           /\ n[1] # "."}) = 1)

(***************************************************************************)
(* StudyAssayParser.parse and _parse_nodes (lines 167-184, 241-250).       *)
(* A file of the directory is [exists, lines]: lines are the rows the csv  *)
(* reader yields, the header row first.  What _parse_nodes returns is      *)
(* [err, isNone, nodes]: None, or the OrderedDict of _collapse_rows.       *)
(***************************************************************************)

\* The most studies of one investigation.
MaxStudies == 2

StudyFileNameKey == <<"S", "t", "u", "d", "y", " ", "F", "i", "l", "e", " ", "N", "a", "m", "e">>
StudyAssayFileNameKey == <<"S", "t", "u", "d", "y", " ", "A", "s", "s", "a", "y", " ", "F", "i", "l", "e", " ", "N", "a", "m", "e">>

\* _collapse_rows on all the rows of a reader.
RECURSIVE CollapseFrom(_, _, _, _)
CollapseFrom(ns, hs, rs, i) ==
    IF i > Len(rs) THEN [nodes |-> ns, err |-> "none"]
    ELSE LET st == Row(ns, hs, rs[i])
         IN  IF st.err # "none" THEN [nodes |-> st.nodes, err |-> st.err]
             ELSE CollapseFrom(st.nodes, hs, rs, i + 1)

\* _parse_nodes(fname)
ParseNodes(d, fname) ==
    IF ~d[fname].exists THEN [err |-> "none", isNone |-> TRUE, nodes |-> <<>>]
    ELSE IF d[fname].lines = <<>>
    THEN [err |-> "StopIteration", isNone |-> TRUE, nodes |-> <<>>]
    ELSE LET c == CollapseFrom(<<>>, Head(d[fname].lines), Tail(d[fname].lines), 1)
         IN  [err |-> c.err, isNone |-> c.err # "none", nodes |-> c.nodes]

\* The truth value of what _parse_nodes returned: None and an empty
\* OrderedDict are both false.
Truthy(r) == ~r.isNone /\ r.nodes # <<>>

\* Lines 177-178: the file of one assay record, parsed.
AssayNodes(d, assay) ==
    IF StudyAssayFileNameKey \notin DOMAIN assay
    THEN [err |-> "KeyError", isNone |-> TRUE, nodes |-> <<>>]
    ELSE ParseNodes(d, assay[StudyAssayFileNameKey])

\* Lines 176-180: the loop over the assays of a study; the result is
\* [err, assays], the error that ended the loop and the Assay records built
\* before it.
AssaysFrom(d, assays) ==
    LET res == [i \in 1..Len(assays) |-> AssayNodes(d, assays[i])]
        bad == {i \in 1..Len(assays) : res[i].err # "none"}
        stop == IF bad = {} THEN Len(assays) + 1
                ELSE CHOOSE i \in bad : \A j \in bad : i <= j
    IN  [err |-> IF bad = {} THEN "none" ELSE res[stop].err,
         assays |-> [i \in 1..(stop - 1) |->
                        [metadata |-> assays[i],
                         nodes |-> [isNone |-> res[i].isNone, nodes |-> res[i].nodes]]]]

\* Study()
NewStudy(meta, assays) ==
    [metadata |-> meta, assays |-> assays, nodes |-> [isNone |-> FALSE, nodes |-> <<>>]]

StudyFileNames == { <<"s", "_", "1", ".", "t", "x", "t">>, <<"s", "_", "2", ".", "t", "x", "t">> }
AssayFileNames == { <<"a", "_", "1", ".", "t", "x", "t">> }

\* The contents a file may have: absent, no line at all, a header row alone,
\* a header row and a data row, a header row and a blank line.
FileContents ==
    { [exists |-> FALSE, lines |-> <<>>],
      [exists |-> TRUE, lines |-> <<>>],
      [exists |-> TRUE, lines |-> << <<SourceName, SampleName>> >>],
      [exists |-> TRUE, lines |-> << <<SourceName, SampleName>>, <<Src1, Samp1>> >>],
      [exists |-> TRUE, lines |-> << <<SourceName, SampleName>>, <<>> >>] }

\* The studies InvestigationParser.parse may hand over.
StudyInputs ==
    {NewStudy(m, a) :
        m \in {Put(EmptyDict, StudyFileNameKey, f) : f \in StudyFileNames} \cup {EmptyDict},
        a \in { <<>> } \cup
              { <<Put(EmptyDict, StudyAssayFileNameKey, f)>> : f \in AssayFileNames }}

StudyInit ==
    /\ disk \in [StudyFileNames \cup AssayFileNames -> FileContents]
    /\ studies0 \in UNION {[1..n -> StudyInputs] : n \in 0..MaxStudies}
    /\ recStudies = studies0
    /\ final_studies = <<>>
    /\ study_index = 1
    /\ studyPc = "loop"
    /\ studyErr = "none"
    /\ SlugIdle /\ CollapseIdle /\ DirIdle /\ InvIdle

\* Lines 171-182: one iteration of the loop over rec.studies.  source_data
\* and the assays are the values the two calls of the iteration return.
StudyIter ==
    /\ studyPc = "loop"
    /\ study_index <= Len(recStudies)
    /\ \E study \in {recStudies[study_index]} :
         IF StudyFileNameKey \notin DOMAIN study.metadata
         THEN /\ studyPc' = "raised" /\ studyErr' = "KeyError"
              /\ UNCHANGED <<recStudies, final_studies, study_index>>
         ELSE \E source_data \in {ParseNodes(disk, study.metadata[StudyFileNameKey])} :
              IF source_data.err # "none"
              THEN /\ studyPc' = "raised" /\ studyErr' = source_data.err
                   /\ UNCHANGED <<recStudies, final_studies, study_index>>
              ELSE IF ~Truthy(source_data)
              THEN /\ study_index' = study_index + 1
                   /\ UNCHANGED <<recStudies, final_studies, studyPc, studyErr>>
              ELSE \E as \in {AssaysFrom(disk, study.assays)},
                      withNodes \in {[study EXCEPT !.nodes =
                                         [isNone |-> FALSE, nodes |-> source_data.nodes]]} :
                   IF as.err # "none"
                   THEN /\ studyPc' = "raised" /\ studyErr' = as.err
                        /\ recStudies' = [recStudies EXCEPT ![study_index] = withNodes]
                        /\ UNCHANGED <<final_studies, study_index>>
                   ELSE \E done \in {[withNodes EXCEPT !.assays = as.assays]} :
                        /\ recStudies' = [recStudies EXCEPT ![study_index] = done]
                        /\ final_studies' = Append(final_studies, done)
                        /\ study_index' = study_index + 1
                        /\ UNCHANGED <<studyPc, studyErr>>
    /\ UNCHANGED <<disk, studies0>>
    /\ UNCHANGED <<slugVars, collapseVars, dirVars, invVars>>

\* Lines 183-184: rec.studies = final_studies; return rec.
StudyFinish ==
    /\ studyPc = "loop"
    /\ study_index > Len(recStudies)
    /\ recStudies' = final_studies
    /\ studyPc' = "returned"
    /\ UNCHANGED <<disk, studies0, final_studies, study_index, studyErr>>
    /\ UNCHANGED <<slugVars, collapseVars, dirVars, invVars>>

StudyNext == StudyIter \/ StudyFinish

SpecStudy == StudyInit /\ [][StudyNext]_vars

\* The "Study File Name" of every study of a list.
FileNamesOf(studies) ==
    [i \in 1..Len(studies) |->
        studies[i].metadata[<<"S", "t", "u", "d", "y", " ", "F", "i", "l", "e", " ",
                              "N", "a", "m", "e">>]]

\* C4. Study file resolution: after StudyAssayParser.parse,
\* Investigation.studies holds, in their original order, exactly the studies
\* whose "Study File Name" file exists on disk: a study whose file is missing
\* is left out without an error, and every study whose file is present is
\* kept, also when the file has a header row and no data rows.
C4_StudiesWithExistingFile ==
    studyPc = "returned" =>
        LET OnDisk(name) == disk[name].exists
        IN  FileNamesOf(recStudies) = SelectSeq(FileNamesOf(studies0), OnDisk)

(***************************************************************************)
(* InvestigationParser: the section headers and keys of an investigation   *)
(* file, as text.                                                          *)
(***************************************************************************)
STUDY == <<"S", "T", "U", "D", "Y">>
STUDY_FACTORS ==
    <<"S", "T", "U", "D", "Y", " ", "F", "A", "C", "T", "O", "R", "S">>
STUDY_PROTOCOLS ==
    <<"S", "T", "U", "D", "Y", " ", "P", "R", "O", "T", "O", "C", "O", "L",
      "S">>
INVESTIGATION ==
    <<"I", "N", "V", "E", "S", "T", "I", "G", "A", "T", "I", "O", "N">>
ONTOLOGY_SOURCE_REFERENCE ==
    <<"O", "N", "T", "O", "L", "O", "G", "Y", " ", "S", "O", "U", "R", "C",
      "E", " ", "R", "E", "F", "E", "R", "E", "N", "C", "E">>
INVESTIGATION_PUBLICATIONS ==
    <<"I", "N", "V", "E", "S", "T", "I", "G", "A", "T", "I", "O", "N", " ",
      "P", "U", "B", "L", "I", "C", "A", "T", "I", "O", "N", "S">>
INVESTIGATION_CONTACTS ==
    <<"I", "N", "V", "E", "S", "T", "I", "G", "A", "T", "I", "O", "N", " ",
      "C", "O", "N", "T", "A", "C", "T", "S">>
STUDY_DESIGN_DESCRIPTORS ==
    <<"S", "T", "U", "D", "Y", " ", "D", "E", "S", "I", "G", "N", " ", "D",
      "E", "S", "C", "R", "I", "P", "T", "O", "R", "S">>
STUDY_PUBLICATIONS ==
    <<"S", "T", "U", "D", "Y", " ", "P", "U", "B", "L", "I", "C", "A", "T",
      "I", "O", "N", "S">>
STUDY_ASSAYS ==
    <<"S", "T", "U", "D", "Y", " ", "A", "S", "S", "A", "Y", "S">>
STUDY_CONTACTS ==
    <<"S", "T", "U", "D", "Y", " ", "C", "O", "N", "T", "A", "C", "T", "S">>
SdrfFileKey == <<"S", "D", "R", "F", " ", "F", "i", "l", "e">>
FactorNameKey == <<"F", "a", "c", "t", "o", "r", " ", "N", "a", "m", "e">>
ProtocolNameKey ==
    <<"P", "r", "o", "t", "o", "c", "o", "l", " ", "N", "a", "m", "e">>

\* Lines 64-74: InvestigationParser.sections
sections ==
    (ONTOLOGY_SOURCE_REFERENCE :> "ontology_refs") @@
    (INVESTIGATION :> "metadata") @@
    (INVESTIGATION_PUBLICATIONS :> "publications") @@
    (INVESTIGATION_CONTACTS :> "contacts") @@
    (STUDY_DESIGN_DESCRIPTORS :> "design_descriptors") @@
    (STUDY_PUBLICATIONS :> "publications") @@
    (STUDY_FACTORS :> "factors") @@
    (STUDY_ASSAYS :> "assays") @@
    (STUDY_PROTOCOLS :> "protocols") @@
    (STUDY_CONTACTS :> "contacts")

\* A list attribute of a record: the value is None or a list of dicts.
ListValue(l) == [isNone |-> FALSE, list |-> l]
NoneValue == [isNone |-> TRUE, list |-> <<>>]

\* Investigation(): the attributes of a new instance.
Investigation ==
    [metadata |-> EmptyDict,
     attrs |-> [a \in {"ontology_refs", "publications", "contacts"} |-> ListValue(<<>>)],
     studies |-> <<>>]

\* Study(): the attributes of a new instance InvestigationParser can set.
Study ==
    [metadata |-> EmptyDict,
     attrs |-> [a \in {"design_descriptors", "publications", "factors", "assays",
                       "protocols", "contacts"} |-> ListValue(<<>>)]]

\* str.strip()
Strip(s) ==
    LET solid == {i \in 1..Len(s) : s[i] # " "}
    IN  IF solid = {} THEN <<>>
        ELSE SubSeq(s, CHOOSE i \in solid : \A j \in solid : i <= j,
                       CHOOSE i \in solid : \A j \in solid : i >= j)

\* "".join(line[1:])
RECURSIVE JoinFrom(_, _)
JoinFrom(line, i) ==
    IF i > Len(line) THEN <<>> ELSE line[i] \o JoinFrom(line, i + 1)

\* Line 121: the rows _line_iter yields.
Yielded(raw) == Len(raw) > 0 /\ raw[1] # <<>>

\* Lines 123-125: a section header is cut down to its first cell.
LineIterLine(raw) ==
    IF Upper(raw[1]) = raw[1] /\ JoinFrom(raw, 2) = <<>> THEN <<raw[1]>> ELSE raw

\* A break test that knows one header only.
KeyvalsBreakStudyOnly(line) == line = <<STUDY>>

\* Line 133: the line that ends a block of key/value rows.
KeyvalsBreak(line) == Len(line) = 1 /\ Upper(line[1]) = line[1]

\* Lines 138-139: while not line[-1]: line = line[:-1]
RECURSIVE TrimBlank(_)
TrimBlank(line) ==
    IF line[Len(line)] = <<>> THEN TrimBlank(SubSeq(line, 1, Len(line) - 1)) ELSE line

\* Lines 142-143: while len(line) < n: line.append("")
Pad(line, n) ==
    IF Len(line) < n THEN line \o [i \in 1..(n - Len(line)) |-> <<>>] ELSE line

\* Lines 137-145: one key/value row added to out.
KeyvalsRow(o, line) ==
    LET trimmed == IF o.isNone THEN TrimBlank(line) ELSE line
        dicts == IF o.isNone THEN [i \in 1..(Len(trimmed) - 1) |-> EmptyDict] ELSE o.list
        padded == Pad(trimmed, Len(dicts) + 1)
    IN  ListValue([i \in 1..Len(dicts) |-> Put(dicts[i], padded[1], Strip(padded[i + 1]))])

\* What parse and _parse_region hold between two reads of a line.
Frame ==
    [region |-> region, rec |-> rec, section |-> section, had_info |-> had_info,
     in_studies |-> in_studies, invPc |-> invPc, invErr |-> invErr]

Raise(f, e) == [f EXCEPT !.invPc = "raised", !.invErr = e]

\* Lines 89-94: the study of a MAGE-TAB file, and the return.
SdrfStep(f) ==
    IF SdrfFileKey \in DOMAIN f.rec.metadata
    THEN [f EXCEPT !.rec.studies =
                       Append(@, [Study EXCEPT !.metadata =
                           Put(EmptyDict, StudyFileNameKey, f.rec.metadata[SdrfFileKey])]),
                   !.invPc = "returned"]
    ELSE [f EXCEPT !.invPc = "returned"]

\* Line 114 and lines 80-88: _parse_region returns; the investigation region
\* is followed by the first study region, a study region with information is
\* appended and followed by the next, one without ends the loop.
RegionReturn(f) ==
    IF ~f.in_studies
    THEN [f EXCEPT !.rec = f.region, !.region = Study, !.in_studies = TRUE,
                   !.had_info = FALSE, !.section = None, !.invPc = "line100"]
    ELSE IF f.had_info
    THEN [f EXCEPT !.rec.studies = Append(@, f.region), !.region = Study,
                   !.had_info = FALSE, !.section = None, !.invPc = "line100"]
    ELSE SdrfStep(f)

\* Lines 103-105: the loop test, and had_info set on entry of the body.
LoopTest(f) ==
    IF f.section # None /\ f.section # STUDY
    THEN [f EXCEPT !.had_info = TRUE, !.invPc = "line105"]
    ELSE RegionReturn(f)

\* Lines 100-102: the first block of the region is its metadata.
Return100(f, keyvals, sec) ==
    LoopTest([f EXCEPT !.region.metadata =
                           IF ~keyvals.isNone /\ keyvals.list # <<>>
                           THEN keyvals.list[1] ELSE @,
                       !.section = sec])

\* Lines 105-113: the block read is stored under the attribute of the section
\* that preceded it.
Return105(f, keyvals, next_section) ==
    IF f.section \notin DOMAIN sections THEN Raise(f, "KeyError")
    ELSE IF sections[f.section] = "metadata"
    THEN IF keyvals.isNone THEN Raise(f, "TypeError")
         ELSE LoopTest([f EXCEPT !.region.metadata =
                                     IF keyvals.list = <<>> THEN EmptyDict
                                     ELSE keyvals.list[1],
                                 !.section = next_section])
    ELSE LoopTest([f EXCEPT !.region.attrs = Put(@, sections[f.section], keyvals),
                            !.section = next_section])

\* Line 147: _parse_keyvals returns to the call that made it.
KeyvalsReturn(f, keyvals, line) ==
    IF f.invPc = "line100" THEN Return100(f, keyvals, line)
    ELSE Return105(f, keyvals, line)

(***************************************************************************)
(* InvestigationParser.parse on a file read line by line.                  *)
(***************************************************************************)
MaxLines == 5

\* The lines a file is made of: section headers (one with a trailing blank
\* cell), key/value rows of one and two columns (one with a trailing blank
\* cell), and a line with a blank first cell.
RawLines ==
    { <<STUDY>>,
      <<STUDY_FACTORS>>,
      <<STUDY_PROTOCOLS, <<>>>>,
      <<INVESTIGATION>>,
      <<StudyFileNameKey, <<"s", "_", "1", ".", "t", "x", "t">>>>,
      <<FactorNameKey, <<"f", "1">>, <<" ", "f", "2", " ">>>>,
      <<ProtocolNameKey, <<"p", "1">>, <<>>>>,
      <<SdrfFileKey, <<"x", ".", "t", "x", "t">>>>,
      <<<<>>, <<"x">>>> }

InvInit ==
    /\ in_handle = <<>>
    /\ exhausted = FALSE
    /\ out = NoneValue
    /\ section = None
    /\ had_info = FALSE
    /\ region = Investigation
    /\ in_studies = FALSE
    /\ rec = Investigation
    /\ invPc = "line100"
    /\ invErr = "none"
    /\ SlugIdle /\ CollapseIdle /\ DirIdle /\ StudyIdle

\* The frame after a step.
SetFrame(f) ==
    /\ region' = f.region
    /\ rec' = f.rec
    /\ section' = f.section
    /\ had_info' = f.had_info
    /\ in_studies' = f.in_studies
    /\ invPc' = f.invPc
    /\ invErr' = f.invErr

\* Lines 120-125 and 132-146: the reader gives one more line; _line_iter
\* skips it, or _parse_keyvals adds it to out, or it is a header and
\* _parse_keyvals returns to _parse_region, which runs up to its next read.
KeyvalsLine ==
    /\ invPc \in {"line100", "line105"}
    /\ ~exhausted
    /\ Len(in_handle) < MaxLines
    /\ \E raw \in RawLines :
         /\ in_handle' = Append(in_handle, raw)
         /\ IF ~Yielded(raw)
            THEN UNCHANGED <<out, section, had_info, region, in_studies, rec, invPc, invErr>>
            ELSE \E line \in {LineIterLine(raw)} :
                 IF KeyvalsBreak(line)
                 THEN /\ out' = NoneValue
                      /\ \E f \in {KeyvalsReturn(Frame, out, line[1])} : SetFrame(f)
                 ELSE /\ out' = KeyvalsRow(out, line)
                      /\ UNCHANGED <<section, had_info, region, in_studies, rec,
                                     invPc, invErr>>
    /\ UNCHANGED exhausted
    /\ UNCHANGED <<slugVars, collapseVars, dirVars, studyVars>>

\* Lines 132 and 147: the reader is exhausted; _parse_keyvals returns what it
\* has with line None, and _parse_region runs up to its next read.
KeyvalsEnd ==
    /\ invPc \in {"line100", "line105"}
    /\ exhausted' = TRUE
    /\ out' = NoneValue
    /\ \E f \in {KeyvalsReturn(Frame, out, None)} : SetFrame(f)
    /\ UNCHANGED in_handle
    /\ UNCHANGED <<slugVars, collapseVars, dirVars, studyVars>>

InvNext == KeyvalsLine \/ KeyvalsEnd

SpecInv == InvInit /\ [][InvNext]_vars

(***************************************************************************)
(* The file as a reader of the format sees it: headers, regions, blocks.   *)
(***************************************************************************)

\* The positions of the section headers among the lines read.
HeaderPositions ==
    {i \in 1..Len(in_handle) :
        /\ Len(in_handle[i]) > 0
        /\ in_handle[i][1] # <<>>
        /\ Upper(in_handle[i][1]) = in_handle[i][1]
        /\ \A c \in 2..Len(in_handle[i]) : in_handle[i][c] = <<>>}

\* The STUDY headers among the header positions hp.
StudyPositions(hp) == {i \in hp : in_handle[i][1] = STUDY}

\* The region a position lies in: 0 before the first STUDY header, k from the
\* k-th STUDY header on.
RegionOf(i, hp) == Cardinality({j \in StudyPositions(hp) : j <= i})

\* The keys of the key/value rows between position h (a header, or 0 for the
\* start of the file) and the next header.
BlockKeys(h, hp) ==
    LET end == IF \E x \in hp : x > h
               THEN CHOOSE x \in hp : x > h /\ \A y \in hp : y > h => x <= y
               ELSE Len(in_handle) + 1
    IN  {in_handle[i][1] : i \in {j \in (h + 1)..(end - 1) :
            Len(in_handle[j]) > 0 /\ in_handle[j][1] # <<>>}}

\* The positions whose block is the metadata of region k: the start of the
\* region, and the INVESTIGATION headers of the region.
MetadataPositions(k, hp) ==
    {h \in hp \cup {0} :
        /\ RegionOf(h, hp) = k
        /\ \/ h = 0
           \/ in_handle[h][1] = STUDY
           \/ in_handle[h][1] = INVESTIGATION}

\* The positions whose block is stored under attribute a of region k.
AttrPositions(k, a, hp) ==
    {h \in hp :
        /\ RegionOf(h, hp) = k
        /\ in_handle[h][1] \in DOMAIN sections
        /\ sections[in_handle[h][1]] = a}

\* Every record of object obj, the record of region k, has the keys of one
\* block of region k, under a header of the attribute that holds it.
FromOneBlock(obj, k, hp) ==
    /\ \/ obj.metadata = EmptyDict
       \/ \E h \in MetadataPositions(k, hp) : DOMAIN obj.metadata = BlockKeys(h, hp)
    /\ \A a \in DOMAIN obj.attrs :
         \A i \in 1..Len(obj.attrs[a].list) :
            \E h \in AttrPositions(k, a, hp) :
                DOMAIN obj.attrs[a].list[i] = BlockKeys(h, hp)

\* The study lines 90-93 made for a MAGE-TAB file is the last of the list.
IsSdrfStudy(k) ==
    /\ invPc = "returned"
    /\ SdrfFileKey \in DOMAIN rec.metadata
    /\ k = Len(rec.studies)

\* C8: every record stored in the Investigation, in a Study of its list or
\* in the record being filled holds exactly the keys of the rows of one
\* block of its own region, a block under a header of the attribute that
\* holds the record (or, for metadata, the first block of the region or one
\* under INVESTIGATION); so no record mixes the rows of two sections and no
\* key under STUDY FACTORS reaches a protocols record.
C8_SectionBoundary ==
    invPc \in {"line100", "line105", "returned"} =>
        LET hp == HeaderPositions
        IN  /\ FromOneBlock(rec, 0, hp)
            /\ \A k \in 1..Len(rec.studies) :
                  IsSdrfStudy(k) \/ FromOneBlock(rec.studies[k], k, hp)
            /\ invPc # "returned" =>
                  FromOneBlock(region, IF in_studies THEN Len(rec.studies) + 1 ELSE 0, hp)

\* A file with a study that has factors and protocols has been parsed.
C8_Witness ==
    /\ invPc = "returned"
    /\ \E k \in 1..Len(rec.studies) :
          /\ rec.studies[k].attrs["factors"].list # <<>>
          /\ rec.studies[k].attrs["protocols"].list # <<>>
          /\ FactorNameKey \in DOMAIN rec.studies[k].attrs["factors"].list[1]
          /\ ProtocolNameKey \in DOMAIN rec.studies[k].attrs["protocols"].list[1]

\* C3: when parse has returned from a file read to its end that names no
\* SDRF file, the studies list has one Study for each STUDY header.
C3_StudyCount ==
    (invPc = "returned" /\ exhausted /\ SdrfFileKey \notin DOMAIN rec.metadata)
        => Len(rec.studies) = Cardinality(StudyPositions(HeaderPositions))

====
